---- MODULE Spec2Model ----
(***************************************************************************)
(* Announcements API router (src/backend/routers/announcements.py).        *)
(*                                                                         *)
(* The state is the announcements collection, the UTC clock, the store's   *)
(* id generator and, per request worker, the call it is serving: the       *)
(* request, the handler's locals and the response.  Every handler is one   *)
(* action, except update_announcement, which is two: the part up to and    *)
(* including update_one, and the part from the matched_count test to the   *)
(* return, so that requests of other workers can take place between its    *)
(* update_one and its find_one.  A worker takes its next request once the  *)
(* response of the previous one has been sent.                             *)
(***************************************************************************)
EXTENDS Integers, Sequences, FiniteSets, TLC

VARIABLES
    store,      \* announcements_collection: a set of documents
    now,        \* what datetime.utcnow() returns
    nextId,     \* number of ObjectIds the store has generated so far
    pc,         \* pc[w]: "idle", "updated" (between update_one and find_one), "done"
    call        \* call[w]: the request worker w serves, its locals and its response

vars == <<store, now, nextId, pc, call>>

-----------------------------------------------------------------------------
(* Bounds of the model *)

MaxCreates == 2         \* insert_one calls in one behaviour
MaxTime == 1            \* the clock runs over 0 .. MaxTime
ObjectIdLen == 2        \* characters of an ObjectId's string form

(* Program constants *)

MinMessageLen == 1
MaxMessageLen == 500

-----------------------------------------------------------------------------
(* Python values *)

\* Optional[T]: None, or a value
None == <<>>
Some(x) == <<x>>

\* dict.get(key): None when the key is absent
Get(d, k) == IF k \in DOMAIN d THEN Some(d[k]) ELSE None

\* request workers; the sequential specification uses the first only
Workers == {1, 2}
SeqWorkers == {1}

\* datetimes a request can carry: each is later than some clock value and not
\* later than another
Dates == 1..(MaxTime + 1)
OptDates == {None} \cup {Some(d) : d \in Dates}

\* message strings, as sequences of characters
Msg1 == <<"h", "i">>
Msg2 == <<"x">>
EmptyMsg == <<>>
LongMsg == [i \in 1..(MaxMessageLen + 1) |-> "x"]

\* what get_current_user yields: a dict, with or without a "role" key
Users ==
    { [username |-> "s", role |-> "student"],
      [username |-> "t", role |-> "teacher"],
      [username |-> "a", role |-> "admin"],
      [username |-> "n"] }

-----------------------------------------------------------------------------
(* bson.ObjectId: a 12-byte value written as 24 hexadecimal characters.     *)
(* The model writes a value as ObjectIdLen characters over the hexadecimal  *)
(* digits a and b; parsing accepts both cases, str() yields lower case.     *)

HexLower == <<"a", "b">>
IsHex(c) == c \in {"a", "b", "A", "B"}
Lower(c) == IF c = "A" THEN "a" ELSE IF c = "B" THEN "b" ELSE c
Upper(c) == IF c = "a" THEN "A" ELSE IF c = "b" THEN "B" ELSE c
DigitValue(c) == IF Lower(c) = HexLower[1] THEN 0 ELSE 1

RECURSIVE HexValue(_)
HexValue(s) ==
    IF s = <<>> THEN 0
    ELSE HexValue(SubSeq(s, 1, Len(s) - 1)) * Len(HexLower) + DigitValue(s[Len(s)])

RECURSIVE Pow(_, _)
Pow(b, e) == IF e = 0 THEN 1 ELSE b * Pow(b, e - 1)

\* ObjectId(s) raises InvalidId unless s is ObjectIdLen hexadecimal characters
IsValidObjectId(s) == Len(s) = ObjectIdLen /\ \A i \in 1..Len(s) : IsHex(s[i])
ObjectId(s) == HexValue(s)

\* str(oid)
ObjectIdStr(oid) ==
    [i \in 1..ObjectIdLen |->
        HexLower[((oid \div Pow(Len(HexLower), ObjectIdLen - i)) % Len(HexLower)) + 1]]

\* the n-th identifier the store generates (n = 0, 1, ...), never repeated
GenObjectId(n) == n

\* announcement_id path parameters: the string of every identifier the store
\* can generate and of one it never does, one of them in upper case, and
\* three malformed ones: too short, too long, not hexadecimal
GoodIdStrings == {ObjectIdStr(GenObjectId(n)) : n \in 0..MaxCreates}
UpperIdString == [i \in 1..ObjectIdLen |-> Upper(ObjectIdStr(GenObjectId(1))[i])]
BadIdStrings ==
    { SubSeq(ObjectIdStr(GenObjectId(0)), 1, ObjectIdLen - 1),
      ObjectIdStr(GenObjectId(0)) \o <<"a">>,
      <<"g">> \o Tail(ObjectIdStr(GenObjectId(0))) }
IdStrings == GoodIdStrings \cup {UpperIdString} \cup BadIdStrings

-----------------------------------------------------------------------------
(* Pydantic models *)

\* request bodies as parsed JSON (an absent or null field is None): every
\* combination of fields, and two with a message of a length out of range
Bodies ==
    [message : {None, Some(Msg1), Some(Msg2)},
     start_date : OptDates,
     expiration_date : OptDates]
      \cup [message : {Some(EmptyMsg), Some(LongMsg)},
            start_date : {None},
            expiration_date : {Some(MaxTime + 1)}]

MessageOk(m) == Len(m) >= MinMessageLen /\ Len(m) <= MaxMessageLen

AnnouncementCreate(data) ==
    /\ data.message # None
    /\ MessageOk(data.message[1])
    /\ data.expiration_date # None

AnnouncementUpdate(data) ==
    data.message # None => MessageOk(data.message[1])

-----------------------------------------------------------------------------
(* The document store *)

\* find(query) is the set of the collection's documents the query matches

find_one(coll, oid) ==
    IF \E d \in coll : d._id = oid
    THEN Some(CHOOSE d \in coll : d._id = oid)
    ELSE None

insert_one(coll, doc, n) ==
    LET oid == GenObjectId(n)
    IN  [coll |-> coll \cup {[f \in DOMAIN doc \cup {"_id"} |->
                                 IF f = "_id" THEN oid ELSE doc[f]]},
         inserted_id |-> oid]

\* {"$set": upd} on a document
SetFields(d, upd) ==
    [f \in DOMAIN d \cup DOMAIN upd |-> IF f \in DOMAIN upd THEN upd[f] ELSE d[f]]

update_one(coll, oid, upd) ==
    [coll |-> {IF d._id = oid THEN SetFields(d, upd) ELSE d : d \in coll},
     matched_count |-> Cardinality({d \in coll : d._id = oid})]

delete_one(coll, oid) ==
    [coll |-> {d \in coll : d._id # oid},
     deleted_count |-> Cardinality({d \in coll : d._id = oid})]

-----------------------------------------------------------------------------
(* Calls: a request, the handler's locals, the response *)

Ok == "200 OK"
BadRequest == "400 Bad Request"
Forbidden == "403 Forbidden"
NotFound == "404 Not Found"
Unprocessable == "422 Unprocessable Entity"
ServerError == "500 Internal Server Error"
Pending == "pending"

Anonymous == [anonymous |-> TRUE]
NoId == <<"-">>
NoBody == [message |-> None, start_date |-> None, expiration_date |-> None]

Call(op, user, id, data, matched, status, ret) ==
    [op |-> op, user |-> user, id |-> id, data |-> data,
     matched_count |-> matched, status |-> status, ret |-> ret]

NoCall == Call("none", Anonymous, NoId, NoBody, 0, Pending, {})

\* announcement["id"] = str(announcement["_id"])
WithId(d) ==
    [f \in DOMAIN d \cup {"id"} |-> IF f = "id" THEN ObjectIdStr(d._id) ELSE d[f]]

\* worker w ends its handler step in state p with call c
Serve(w, p, c) ==
    /\ pc' = [pc EXCEPT ![w] = p]
    /\ call' = [call EXCEPT ![w] = c]

-----------------------------------------------------------------------------
(* Handlers *)

\* mutant: only the student role is turned away
HasRoleNotStudent(current_user) ==
    Get(current_user, "role") # Some("student")

HasRole(current_user) ==
    Get(current_user, "role") \in {Some("teacher"), Some("admin")}

\* a query reads a field the document lacks as null
Field(d, f) == IF f \in DOMAIN d THEN d[f] ELSE None

\* mutant: "$gte" for "$gt" on expiration_date
ActiveQueryGte(d, t) ==
    /\ Field(d, "expiration_date") # None /\ d.expiration_date[1] >= t
    /\ \/ Field(d, "start_date") = None
       \/ Field(d, "start_date") # None /\ d.start_date[1] <= t

\* {"expiration_date": {"$gt": now},
\*  "$or": [{"start_date": None}, {"start_date": {"$lte": now}}]}
ActiveQuery(d, t) ==
    /\ Field(d, "expiration_date") # None /\ d.expiration_date[1] > t
    /\ \/ Field(d, "start_date") = None
       \/ Field(d, "start_date") # None /\ d.start_date[1] <= t

\* GET /api/announcements/
get_announcements(w) ==
    /\ pc[w] = "idle"
    /\ LET announcements == {d \in store : ActiveQuery(d, now)}
       IN  Serve(w, "done", Call("list_active", Anonymous, NoId, NoBody, 0, Ok,
                                 {WithId(d) : d \in announcements}))
    /\ UNCHANGED <<store, now, nextId>>

\* mutant: the expiration filter of get_announcements left in
AllQueryUnexpired(d) == d.expiration_date # None /\ d.expiration_date[1] > now

\* find({}): every document
AllQuery(d) == TRUE

\* GET /api/announcements/all
get_all_announcements(w, current_user) ==
    /\ pc[w] = "idle"
    /\ IF ~HasRole(current_user)
       THEN Serve(w, "done", Call("list_all", current_user, NoId, NoBody, 0,
                                  Forbidden, {}))
       ELSE LET announcements == {d \in store : AllQuery(d)}
            IN  Serve(w, "done", Call("list_all", current_user, NoId, NoBody, 0, Ok,
                                      {WithId(d) : d \in announcements}))
    /\ UNCHANGED <<store, now, nextId>>

\* mutant: start_date is not copied from the request
NewAnnouncementNoStart(announcement_data, t) ==
    [message |-> announcement_data.message[1],
     start_date |-> None,
     expiration_date |-> announcement_data.expiration_date,
     created_at |-> t,
     updated_at |-> t]

\* the document create_announcement builds
NewAnnouncement(announcement_data, t) ==
    [message |-> announcement_data.message[1],
     start_date |-> announcement_data.start_date,
     expiration_date |-> announcement_data.expiration_date,
     created_at |-> t,
     updated_at |-> t]

\* POST /api/announcements/
create_announcement(w, announcement_data, current_user) ==
    /\ pc[w] = "idle"
    /\ IF ~AnnouncementCreate(announcement_data)
       THEN /\ Serve(w, "done", Call("create", current_user, NoId, announcement_data,
                                     0, Unprocessable, {}))
            /\ UNCHANGED <<store, nextId>>
       ELSE IF ~HasRole(current_user)
       THEN /\ Serve(w, "done", Call("create", current_user, NoId, announcement_data,
                                     0, Forbidden, {}))
            /\ UNCHANGED <<store, nextId>>
       ELSE /\ nextId < MaxCreates
            /\ LET announcement == NewAnnouncement(announcement_data, now)
                   result == insert_one(store, announcement, nextId)
                   returned == [f \in DOMAIN announcement \cup {"_id", "id"} |->
                                   IF f = "_id" THEN result.inserted_id
                                   ELSE IF f = "id" THEN ObjectIdStr(result.inserted_id)
                                   ELSE announcement[f]]
               IN  /\ store' = result.coll
                   /\ nextId' = nextId + 1
                   /\ Serve(w, "done", Call("create", current_user, NoId,
                                            announcement_data, 0, Ok, {returned}))
    /\ UNCHANGED now

\* mutant: every field of the body is written, None included
UpdateDataAll(announcement_data, t) ==
    [f \in {"updated_at", "message", "start_date", "expiration_date"} |->
        IF f = "updated_at" THEN t
        ELSE IF f = "message"
             THEN IF announcement_data.message = None THEN None
                  ELSE announcement_data.message[1]
        ELSE announcement_data[f]]

\* mutant: updated_at is refreshed only when the body supplies a field
UpdateDataLazyStamp(announcement_data, t) ==
    LET present == {g \in {"message", "start_date", "expiration_date"} :
                        announcement_data[g] # None}
    IN  [f \in present \cup (IF present = {} THEN {} ELSE {"updated_at"}) |->
            IF f = "updated_at" THEN t
            ELSE IF f = "message" THEN announcement_data.message[1]
            ELSE announcement_data[f]]

\* the "$set" document of update_announcement
UpdateData(announcement_data, t) ==
    [f \in {"updated_at"}
            \cup {g \in {"message", "start_date", "expiration_date"} :
                      announcement_data[g] # None} |->
        IF f = "updated_at" THEN t
        ELSE IF f = "message" THEN announcement_data.message[1]
        ELSE announcement_data[f]]

\* mutant: update_one(..., upsert=True)
UpdateCallUpsert(coll, object_id, update_data) ==
    IF object_id \in {d._id : d \in coll}
    THEN update_one(coll, object_id, update_data)
    ELSE [coll |-> coll \cup {[f \in DOMAIN update_data \cup {"_id"} |->
                                  IF f = "_id" THEN object_id ELSE update_data[f]]},
          matched_count |-> 0]

\* mutant: replace_one(filter, update_data), which drops the other fields
UpdateCallReplace(coll, object_id, update_data) ==
    [coll |-> {IF d._id = object_id
               THEN [f \in DOMAIN update_data \cup {"_id"} |->
                        IF f = "_id" THEN object_id ELSE update_data[f]]
               ELSE d : d \in coll},
     matched_count |-> Cardinality({d \in coll : d._id = object_id})]

\* announcements_collection.update_one({"_id": object_id}, {"$set": update_data})
UpdateCall(coll, object_id, update_data) == update_one(coll, object_id, update_data)

\* PUT /api/announcements/{announcement_id}, up to and including update_one
update_announcement(w, announcement_id, announcement_data, current_user) ==
    /\ pc[w] = "idle"
    /\ IF ~AnnouncementUpdate(announcement_data)
       THEN /\ Serve(w, "done", Call("update", current_user, announcement_id,
                                     announcement_data, 0, Unprocessable, {}))
            /\ UNCHANGED store
       ELSE IF ~HasRole(current_user)
       THEN /\ Serve(w, "done", Call("update", current_user, announcement_id,
                                     announcement_data, 0, Forbidden, {}))
            /\ UNCHANGED store
       ELSE IF ~IsValidObjectId(announcement_id)
       THEN /\ Serve(w, "done", Call("update", current_user, announcement_id,
                                     announcement_data, 0, BadRequest, {}))
            /\ UNCHANGED store
       ELSE LET object_id == ObjectId(announcement_id)
                update_data == UpdateData(announcement_data, now)
                result == UpdateCall(store, object_id, update_data)
            IN  /\ store' = result.coll
                /\ Serve(w, "updated", Call("update", current_user, announcement_id,
                                            announcement_data, result.matched_count,
                                            Pending, {}))
    /\ UNCHANGED <<now, nextId>>

\* update_announcement from the matched_count test to the return
update_announcement_return(w) ==
    /\ pc[w] = "updated"
    /\ LET c == call[w]
           announcement == find_one(store, ObjectId(c.id))
       IN  IF c.matched_count = 0
           THEN Serve(w, "done", [c EXCEPT !.status = NotFound])
           ELSE IF announcement = None
           THEN \* announcement["id"] on None raises TypeError
                Serve(w, "done", [c EXCEPT !.status = ServerError])
           ELSE Serve(w, "done", [c EXCEPT !.status = Ok,
                                           !.ret = {WithId(announcement[1])}])
    /\ UNCHANGED <<store, now, nextId>>

\* mutant: the document is marked deleted and kept
DeleteCallSoft(coll, object_id) ==
    [coll |-> {IF d._id = object_id
               THEN [f \in DOMAIN d \cup {"deleted"} |->
                        IF f = "deleted" THEN TRUE ELSE d[f]]
               ELSE d : d \in coll},
     deleted_count |-> Cardinality({d \in coll : d._id = object_id})]

\* announcements_collection.delete_one({"_id": object_id})
DeleteCall(coll, object_id) == delete_one(coll, object_id)

\* DELETE /api/announcements/{announcement_id}
delete_announcement(w, announcement_id, current_user) ==
    /\ pc[w] = "idle"
    /\ IF ~HasRole(current_user)
       THEN /\ Serve(w, "done", Call("delete", current_user, announcement_id, NoBody,
                                     0, Forbidden, {}))
            /\ UNCHANGED store
       ELSE IF ~IsValidObjectId(announcement_id)
       THEN /\ Serve(w, "done", Call("delete", current_user, announcement_id, NoBody,
                                     0, BadRequest, {}))
            /\ UNCHANGED store
       ELSE LET result == DeleteCall(store, ObjectId(announcement_id))
            IN  /\ store' = result.coll
                /\ Serve(w, "done", Call("delete", current_user, announcement_id,
                                         NoBody, result.deleted_count,
                                         IF result.deleted_count = 0 THEN NotFound
                                         ELSE Ok, {}))
    /\ UNCHANGED <<now, nextId>>

\* the response has been sent: the worker takes the next request
send_response(w) ==
    /\ pc[w] = "done"
    /\ Serve(w, "idle", NoCall)
    /\ UNCHANGED <<store, now, nextId>>

\* time passes
Tick ==
    /\ now < MaxTime
    /\ now' = now + 1
    /\ UNCHANGED <<store, nextId, pc, call>>

-----------------------------------------------------------------------------
(* Specifications *)

Init ==
    /\ store = {}
    /\ now = 0
    /\ nextId = 0
    /\ pc = [w \in Workers |-> "idle"]
    /\ call = [w \in Workers |-> NoCall]

\* an idle worker takes a request of any kind; a busy one goes on with its call
Idle(w) == pc[w] = "idle"

\* one request at a time, any caller, any path parameter, any body
Next ==
    \/ \E w \in SeqWorkers : Idle(w) /\ get_announcements(w)
    \/ \E w \in SeqWorkers : Idle(w) /\ \E u \in Users : get_all_announcements(w, u)
    \/ \E w \in SeqWorkers : Idle(w) /\ \E data \in Bodies, u \in Users :
           create_announcement(w, data, u)
    \/ \E w \in SeqWorkers : Idle(w) /\ \E id \in IdStrings, data \in Bodies, u \in Users :
           update_announcement(w, id, data, u)
    \/ \E w \in SeqWorkers : update_announcement_return(w)
    \/ \E w \in SeqWorkers : Idle(w) /\ \E id \in IdStrings, u \in Users :
           delete_announcement(w, id, u)
    \/ \E w \in SeqWorkers : send_response(w)
    \/ Tick

Spec == Init /\ [][Next]_vars

\* two workers, privileged callers, well-formed identifiers, valid bodies
ConcUsers == {u \in Users : HasRole(u) /\ u.role = "admin"}
ConcIds == {ObjectIdStr(GenObjectId(n)) : n \in 0..(MaxCreates - 1)}
ConcBodies ==
    [message : {None, Some(Msg1), Some(Msg2)},
     start_date : {None},
     expiration_date : OptDates]

NextConc ==
    \/ \E w \in Workers : Idle(w) /\ \E data \in ConcBodies, u \in ConcUsers :
           create_announcement(w, data, u)
    \/ \E w \in Workers : Idle(w) /\ \E id \in ConcIds, data \in ConcBodies, u \in ConcUsers :
           update_announcement(w, id, data, u)
    \/ \E w \in Workers : update_announcement_return(w)
    \/ \E w \in Workers : Idle(w) /\ \E id \in ConcIds, u \in ConcUsers :
           delete_announcement(w, id, u)
    \/ \E w \in Workers : send_response(w)
    \/ Tick

SpecConc == Init /\ [][NextConc]_vars

-----------------------------------------------------------------------------
(* Vocabulary of the properties *)

\* the caller holds one of the two roles that may write and list everything
Privileged(user) == "role" \in DOMAIN user /\ user.role \in {"teacher", "admin"}

\* a string in the store's identifier format
WellFormedId(s) ==
    /\ Len(s) = ObjectIdLen
    /\ \A i \in 1..Len(s) : s[i] \in {"a", "b", "A", "B"}

\* the body passed the boundary's field constraints for its operation
InputOk(c) ==
    LET lenOk == /\ Len(c.data.message[1]) >= 1
                 /\ Len(c.data.message[1]) <= 500
    IN  /\ c.op = "create" => c.data.message # None /\ lenOk
                                /\ c.data.expiration_date # None
        /\ c.op = "update" => (c.data.message = None \/ lenOk)

Ids(coll) == {d._id : d \in coll}
DocById(coll, oid) == CHOOSE d \in coll : d._id = oid
Generated == {GenObjectId(n) : n \in 0..(nextId - 1)}

\* the step in which worker w's handler for a request of kind op starts
Handles(w, op) == pc[w] = "idle" /\ pc'[w] # "idle" /\ call'[w].op = op

\* the value a body gives a field of the stored record
Supplied(data, f) == IF f = "message" THEN data.message[1] ELSE data[f]
InputFields == {"message", "start_date", "expiration_date"}

\* the record in the form the API returns it
Returned(d) ==
    [f \in DOMAIN d \cup {"id"} |-> IF f = "id" THEN ObjectIdStr(d._id) ELSE d[f]]

\* the active predicate of the data model
IsActive(r, t) ==
    /\ r.start_date = None \/ r.start_date[1] <= t
    /\ r.expiration_date # None /\ r.expiration_date[1] > t

-----------------------------------------------------------------------------
(* C1: a caller without the teacher or admin role gets Forbidden from       *)
(* list_all, create, update and delete, whatever the id argument (malformed, *)
(* unmatched or matching), and the collection stays as it was.               *)

C1_ForbiddenLeavesStore ==
    [][\A w \in Workers :
          ( /\ \E op \in {"list_all", "create", "update", "delete"} : Handles(w, op)
            /\ ~Privileged(call'[w].user)
            /\ InputOk(call'[w]) )
          => /\ pc'[w] = "done"
             /\ call'[w].status = Forbidden
             /\ call'[w].ret = {}
             /\ store' = store
             /\ nextId' = nextId]_vars

\* an update by a caller without a role, with the id of a stored record and a
\* new message, has been answered Forbidden
C1_Witness ==
    \E w \in Workers :
        /\ pc[w] = "done"
        /\ call[w].op = "update"
        /\ "role" \notin DOMAIN call[w].user
        /\ call[w].status = Forbidden
        /\ WellFormedId(call[w].id)
        /\ \E d \in store : /\ d._id = ObjectId(call[w].id)
                            /\ call[w].data.message # None
                            /\ call[w].data.message[1] # d.message

-----------------------------------------------------------------------------
(* C2: list_active, which takes no caller, returns exactly the stored        *)
(* records with (start_date null or start_date <= now) and expiration_date   *)
(* > now, and leaves the store unchanged.                                    *)

C2_ListActiveExact ==
    [][\A w \in Workers :
          Handles(w, "list_active")
          => /\ pc'[w] = "done"
             /\ call'[w].status = Ok
             /\ call'[w].ret = {Returned(r) : r \in {d \in store : IsActive(d, now)}}
             /\ \A r \in store :
                   /\ r.expiration_date[1] <= now => Returned(r) \notin call'[w].ret
                   /\ (r.start_date # None /\ r.start_date[1] > now)
                          => Returned(r) \notin call'[w].ret
                   /\ (r.start_date = None /\ r.expiration_date[1] > now)
                          => Returned(r) \in call'[w].ret
             /\ store' = store]_vars

\* list_active has returned one of two stored records: the other is expired
\* or not yet started
C2_Witness ==
    \E w \in Workers :
        /\ pc[w] = "done"
        /\ call[w].op = "list_active"
        /\ Cardinality(call[w].ret) = 1
        /\ Cardinality(store) = 2
        /\ \E r \in store : r.start_date # None /\ r.start_date[1] > now
                              /\ r.expiration_date[1] > now

-----------------------------------------------------------------------------
(* C3: a successful update changes, in the record with that id, only the     *)
(* fields its patch supplies and updated_at, which becomes the time of the   *)
(* update also for an empty patch; id, created_at and the unsupplied fields  *)
(* stay, and so does every other record.                                     *)

C3_UpdateFrame ==
    [][\A w \in Workers :
          /\ ( /\ Handles(w, "update")
               /\ pc'[w] = "updated"
               /\ call'[w].matched_count = 1 )
             => LET c == call'[w]
                    oid == ObjectId(c.id)
                IN  /\ oid \in Ids(store)
                    /\ oid \in Ids(store')
                    /\ LET old == DocById(store, oid)
                           new == DocById(store', oid)
                       IN  /\ DOMAIN new = DOMAIN old
                           /\ new._id = old._id
                           /\ new.created_at = old.created_at
                           /\ new.updated_at = now
                           /\ \A f \in InputFields :
                                 new[f] = IF c.data[f] = None THEN old[f]
                                          ELSE Supplied(c.data, f)
                           /\ store' \ {new} = store \ {old}
          \* the call succeeds exactly when update_one matched, and returns
          \* the stored record
          /\ (pc[w] = "updated" /\ pc'[w] = "done")
             => /\ call'[w].status = Ok <=> call[w].matched_count = 1
                /\ call'[w].status = Ok
                      => call'[w].ret =
                             {Returned(DocById(store, ObjectId(call[w].id)))}]_vars

\* an update with only a message has succeeded on a record that has a
\* start_date, was created earlier, and is not the only one stored
C3_Witness ==
    \E w \in Workers :
        /\ pc[w] = "done"
        /\ call[w].op = "update"
        /\ call[w].status = Ok
        /\ call[w].data.message # None
        /\ call[w].data.start_date = None
        /\ call[w].data.expiration_date = None
        /\ Cardinality(store) = 2
        /\ \E r \in call[w].ret :
              /\ r.start_date # None
              /\ r.updated_at > r.created_at
              /\ r.message = call[w].data.message[1]

-----------------------------------------------------------------------------
(* C4: a successful create adds exactly one record, under an id no record    *)
(* has or had, with the input's message, start_date and expiration_date and  *)
(* created_at = updated_at = the time of creation; it returns that record,   *)
(* list_all returns it, and the records already stored are unchanged.        *)

C4_CreateAddsOne ==
    [][/\ \A w \in Workers :
             /\ (Handles(w, "create") /\ call'[w].status = Ok)
                => \E new \in store' :
                      /\ new \notin store
                      /\ store' = store \cup {new}
                      /\ new._id \notin Generated
                      /\ new.message = call'[w].data.message[1]
                      /\ new.start_date = call'[w].data.start_date
                      /\ new.expiration_date = call'[w].data.expiration_date
                      /\ new.created_at = now
                      /\ new.updated_at = now
                      /\ call'[w].ret = {Returned(new)}
             /\ (Handles(w, "list_all") /\ Privileged(call'[w].user))
                => \A d \in store : Returned(d) \in call'[w].ret
       \* every id a record has or had is one the store generated
       /\ Ids(store) \subseteq Generated
       /\ Ids(store') \subseteq Generated'
       /\ Generated \subseteq Generated']_vars

\* a create has succeeded after an earlier record was deleted
C4_Witness ==
    \E w \in Workers :
        /\ pc[w] = "done"
        /\ call[w].op = "create"
        /\ call[w].status = Ok
        /\ call[w].data.start_date # None
        /\ nextId = 2
        /\ Cardinality(store) = 1

-----------------------------------------------------------------------------
(* C5: a successful delete removes exactly the record with that id; from     *)
(* then on the record is in no list_active or list_all result, and a delete  *)
(* or update on its id ends NotFound.                                        *)

C5_DeleteIsPermanent ==
    [][/\ \A w \in Workers :
             /\ (Handles(w, "delete") /\ call'[w].status = Ok)
                => /\ ObjectId(call'[w].id) \in Ids(store)
                   /\ store' = store \ {DocById(store, ObjectId(call'[w].id))}
             /\ (Handles(w, "list_active") \/ Handles(w, "list_all"))
                => \A r \in call'[w].ret : r._id \in Ids(store)
             /\ ( /\ Handles(w, "delete") \/ Handles(w, "update")
                  /\ Privileged(call'[w].user)
                  /\ InputOk(call'[w])
                  /\ WellFormedId(call'[w].id)
                  /\ ObjectId(call'[w].id) \in Generated \ Ids(store) )
                => /\ store' = store
                   /\ call'[w].matched_count = 0
                   /\ call'[w].op = "delete"
                         => pc'[w] = "done" /\ call'[w].status = NotFound
                   /\ call'[w].op = "update" => pc'[w] = "updated"
             /\ (pc[w] = "updated" /\ pc'[w] = "done" /\ call[w].matched_count = 0)
                => call'[w].status = NotFound
       \* a deleted record never comes back
       /\ \A oid \in Generated \ Ids(store) : oid \notin Ids(store')]_vars

\* a delete of an id that was deleted before has been answered NotFound
C5_Witness ==
    \E w \in Workers :
        /\ pc[w] = "done"
        /\ call[w].op = "delete"
        /\ call[w].status = NotFound
        /\ WellFormedId(call[w].id)
        /\ ObjectId(call[w].id) \in Generated

-----------------------------------------------------------------------------
(* C6: for a privileged caller, update and delete answer InvalidIdentifier   *)
(* (400) to an id that is not well-formed and NotFound (404) to a well-      *)
(* formed id matching no record; the store is unchanged in both cases.       *)

C6_BadIdAndNotFound ==
    [][\A w \in Workers :
          /\ ( /\ Handles(w, "delete") \/ Handles(w, "update")
               /\ Privileged(call'[w].user)
               /\ InputOk(call'[w]) )
             => /\ ~WellFormedId(call'[w].id)
                   => /\ pc'[w] = "done"
                      /\ call'[w].status = BadRequest
                      /\ store' = store
                /\ (WellFormedId(call'[w].id)
                       /\ ObjectId(call'[w].id) \notin Ids(store))
                   => /\ store' = store
                      /\ call'[w].op = "delete"
                            => pc'[w] = "done" /\ call'[w].status = NotFound
                      /\ call'[w].op = "update"
                            => pc'[w] = "updated" /\ call'[w].matched_count = 0
          /\ (pc[w] = "updated" /\ pc'[w] = "done" /\ call[w].matched_count = 0)
             => call'[w].status = NotFound /\ store' = store]_vars

\* an update with a well-formed id that no stored record has, carrying a
\* full patch, has been answered NotFound while another record is stored
C6_Witness ==
    \E w \in Workers :
        /\ pc[w] = "done"
        /\ call[w].op = "update"
        /\ call[w].status = NotFound
        /\ call[w].data.message # None
        /\ call[w].data.expiration_date # None
        /\ Cardinality(store) = 1
        /\ ObjectId(call[w].id) \notin Ids(store)

-----------------------------------------------------------------------------
(* C7: list_all returns every stored record whatever its dates, hence every  *)
(* record list_active returns at the same time; a record with an expiration  *)
(* date in the past is in list_all and not in list_active.                   *)

C7_ListAllSuperset ==
    [][\A w \in Workers :
          /\ (Handles(w, "list_all") /\ Privileged(call'[w].user))
             => /\ call'[w].status = Ok
                /\ call'[w].ret = {Returned(d) : d \in store}
                /\ {Returned(d) : d \in {r \in store : ActiveQuery(r, now)}}
                       \subseteq call'[w].ret
                /\ Cardinality(call'[w].ret) = Cardinality(store)
                /\ store' = store
          /\ Handles(w, "list_active")
             => /\ call'[w].ret \subseteq {Returned(d) : d \in store}
                /\ \A d \in store :
                      d.expiration_date[1] <= now => Returned(d) \notin call'[w].ret]_vars

\* list_all has returned a record that an update left with an expiration
\* date that has passed
C7_Witness ==
    \E w \in Workers :
        /\ pc[w] = "done"
        /\ call[w].op = "list_all"
        /\ call[w].status = Ok
        /\ \E r \in call[w].ret :
              /\ r.expiration_date[1] <= now
              /\ r.updated_at > r.created_at

-----------------------------------------------------------------------------
(* C8: every stored record has an expiration_date, and no step turns a       *)
(* stored record's start_date or expiration_date from a value into null.     *)

C8_DatesStayNonNull ==
    /\ [](\A d \in store : d.expiration_date # None)
    /\ [][\A d \in store : \A e \in store' :
             d._id = e._id
             => /\ d.start_date # None => e.start_date # None
                /\ d.expiration_date # None => e.expiration_date # None]_vars

\* an update whose patch gives no dates has succeeded on a record that has
\* a start_date
C8_Witness ==
    \E w \in Workers :
        /\ pc[w] = "done"
        /\ call[w].op = "update"
        /\ call[w].status = Ok
        /\ call[w].data.start_date = None
        /\ call[w].data.expiration_date = None
        /\ \E r \in call[w].ret : r.start_date # None /\ r.expiration_date # None

-----------------------------------------------------------------------------
(* C9: two updates of the same record in progress at once: the second write  *)
(* is not refused because of the first, and after it every field the second  *)
(* patch supplies holds the second's value while a field only the first      *)
(* supplies still holds the first's; both calls then end in success.         *)

C9_LastWriterWinsPerField ==
    [][\A w \in Workers :
          /\ \A v \in Workers \ {w} :
                ( /\ Handles(w, "update")
                  /\ pc[v] = "updated"
                  /\ call[v].matched_count = 1
                  /\ ObjectId(call[v].id) = ObjectId(call'[w].id)
                  /\ ObjectId(call[v].id) \in Ids(store)
                  \* the first write is still in place
                  /\ \A f \in InputFields :
                        call[v].data[f] # None
                        => DocById(store, ObjectId(call[v].id))[f]
                               = Supplied(call[v].data, f) )
                => /\ pc'[w] = "updated"
                   /\ call'[w].matched_count = 1
                   /\ ObjectId(call[v].id) \in Ids(store')
                   /\ LET old == DocById(store, ObjectId(call[v].id))
                          new == DocById(store', ObjectId(call[v].id))
                      IN  \A f \in InputFields :
                             /\ f \in DOMAIN new
                             /\ new[f] = IF call'[w].data[f] # None
                                         THEN Supplied(call'[w].data, f)
                                         ELSE IF call[v].data[f] # None
                                         THEN Supplied(call[v].data, f)
                                         ELSE old[f]
          /\ ( /\ pc[w] = "updated"
               /\ pc'[w] = "done"
               /\ call[w].matched_count = 1
               /\ ObjectId(call[w].id) \in Ids(store) )
             => call'[w].status = Ok]_vars

\* both workers have written the same record and neither has returned: the
\* patches give different expiration dates, and only one gives a message
C9_Witness ==
    \E w \in Workers : \E v \in Workers \ {w} :
        /\ pc[w] = "updated" /\ pc[v] = "updated"
        /\ call[w].matched_count = 1 /\ call[v].matched_count = 1
        /\ call[w].id = call[v].id
        /\ call[w].data.message = None /\ call[v].data.message # None
        /\ call[w].data.expiration_date # None
        /\ call[v].data.expiration_date # None
        /\ call[w].data.expiration_date # call[v].data.expiration_date
        /\ \E d \in store :
              /\ d._id = ObjectId(call[w].id)
              /\ d.expiration_date = call[w].data.expiration_date
              /\ d.message = call[v].data.message[1]

-----------------------------------------------------------------------------
(* C10: whatever updates and deletes run at the same time, an update by a    *)
(* privileged caller with a well-formed id ends either NotFound or in        *)
(* success with a returned record that has the values of its patch, never    *)
(* in a failure outside the taxonomy.                                        *)

C10_UpdateEndsNotFoundOrOk ==
    \A w \in Workers :
        ( /\ pc[w] = "done"
          /\ call[w].op = "update"
          /\ Privileged(call[w].user)
          /\ WellFormedId(call[w].id) )
        => \/ call[w].status = NotFound
           \/ /\ call[w].status = Ok
              /\ \E r \in call[w].ret :
                    \A f \in InputFields :
                        call[w].data[f] # None => r[f] = Supplied(call[w].data, f)

====
